---- MODULE Spec2Model ----
(***************************************************************************)
(* Model of the per-job processing queue of src/server.py.                 *)
(*                                                                         *)
(* The server is one asyncio event loop.  Every endpoint is an `async def` *)
(* handler and the runner (process_request, server.py:147-159) is an       *)
(* `async def` background task, so it is awaited on the same loop after    *)
(* the response of the admitting request has been sent.  Control leaves a  *)
(* coroutine only where an awaited object really suspends:                 *)
(*   - analyze_student_attention (gemini_analysis.py:8) is a plain `def`,  *)
(*     requests.get, Image.open and the csv writes are blocking calls;     *)
(*   - process_images and process_single_request contain no other await;   *)
(*   - job_queues is an unbounded asyncio.Queue: put never waits, and get  *)
(*     is only called right after `not empty()`, so it never waits either. *)
(* Hence a handler runs from entry to return without interleaving, and a   *)
(* runner, once started, runs to its exit without any handler or other     *)
(* runner interleaving.  The only window in which other requests are       *)
(* served while a runner exists is between the return of the admitting     *)
(* handler and the start of its background task (the response is sent in   *)
(* between).  The model keeps the runner's statements as separate steps    *)
(* (its position is the field run.pc), so that the intermediate states of  *)
(* the program are states of the model, and lets the event loop serve a    *)
(* handler only when no runner is executing (run = NoRun).                 *)
(***************************************************************************)
EXTENDS Integers, Sequences, FiniteSets, TLC

\* ------------------------------------------------------------------ bounds
\* Number of analyze_student_images calls modelled, over all jobs.
MaxSubmits == 3

\* Number of lines of the analysis texts the extraction is checked on.
MaxLines == 2

\* The focus percentages the extraction is checked on are 0..MaxPct.
MaxPct == 100

\* Job identifiers used by the clients.
Jobs == {"s1", "s2"}

\* Shapes of AnalyzeImagesRequest: each image reference is TRUE when it can be
\* loaded (the URL answers / the path exists) and FALSE when it cannot.  One
\* batch in which two of three images load, one in which none loads.
RequestShapes ==
    { [image_urls |-> <<TRUE, FALSE>>, image_paths |-> <<TRUE>>],
      [image_urls |-> <<FALSE>>,       image_paths |-> <<FALSE>>] }

\* --------------------------------------------------------------- the state
VARIABLES
    csv_exists,        \* os.path.exists(get_csv_path(job_id))
    log,               \* the data rows of the job's csv file, oldest first
    active_jobs,       \* active_jobs.get(job_id), None read as FALSE
    job_queues,        \* job_queues[job_id], oldest first
    job_queue_counts,  \* job_queue_counts[job_id]
    tasks,             \* background tasks added by a handler and not started
    run,               \* the runner the event loop is executing, or NoRun
    responses,         \* history: the responses of analyze_student_images
                       \* (with the number of log entries at that time)
    handed,            \* history: the calls of process_single_request
    reply              \* the response of create_job, analyze_job or
                       \* job_status when the last step was such a call

vars == <<csv_exists, log, active_jobs, job_queues, job_queue_counts,
          tasks, run, responses, handed, reply>>

\* The state of the server, without the histories and the last response.
server == <<csv_exists, log, active_jobs, job_queues, job_queue_counts,
            tasks, run>>

NoBody == [none |-> TRUE]

NoReply == [op |-> "none", job |-> "none", code |-> 0, body |-> NoBody]

NoReq == [id |-> 0, image_urls |-> <<>>, image_paths |-> <<>>]

NoRun == [job |-> "none", pc |-> "idle", req |-> NoReq,
          fromQueue |-> FALSE, images |-> <<>>]

Max(a, b) == IF a >= b THEN a ELSE b

\* ------------------------------------------------------------ pure helpers
IsLoadable(ref) == ref = TRUE

\* Mutant of LoadImages: a reference that cannot be loaded is kept.
LoadImages_KeepAll(req) == req.image_urls \o req.image_paths

\* process_single_request, the two loading loops: the images that load, URLs
\* first, then paths; a reference that fails is skipped.
LoadImages(req) ==
    SelectSeq(req.image_urls, IsLoadable) \o SelectSeq(req.image_paths, IsLoadable)

\* Mutant of ShouldQueue: the active flag is not consulted.
ShouldQueue_QueueOnly(j) == job_queues[j] # <<>>

\* analyze_student_images, the admission test.
ShouldQueue(j) == active_jobs[j] \/ job_queues[j] # <<>>

\* Mutant of QueuedCount: the counter is not incremented.
QueuedCount_NoIncrement(c) == c

\* analyze_student_images: job_queue_counts[job_id] += 1.
QueuedCount(c) == c + 1

\* Mutant of QueuePosition: a zero-based position is reported.
QueuePosition_ZeroBased(c) == c - 1

\* analyze_student_images: "queue_position": job_queue_counts[job_id], read
\* after the increment.
QueuePosition(c) == c

\* Mutant of Enqueue: the request is put at the head of the queue.
Enqueue_Front(q, req) == <<req>> \o q

\* analyze_student_images: await job_queues[job_id].put(request).
Enqueue(q, req) == Append(q, req)

\* Mutant of DrainedCount: the counter is left as it is.
DrainedCount_Kept(c) == c

\* process_request: max(0, job_queue_counts[job_id] - 1).
DrainedCount(c) == Max(0, c - 1)

\* Mutant of QueueFront: the newest request is taken (LIFO).
QueueFront_Last(q) == q[Len(q)]

\* asyncio.Queue.get on a non-empty queue: the oldest item.
QueueFront(q) == Head(q)

\* asyncio.Queue.get: the item taken leaves the queue.
QueueRest(q) == Tail(q)

\* ------------------------------------------------- the analysis text
\* A line of the analysis text: the marker names it contains and the text
\* after its last colon, stripped: a number ("7"), a percentage ("75%"),
\* a spelling of infinity that float() accepts ("inf", "1e999") or
\* anything else.
Num(n) == [kind |-> "num", n |-> n]
Pct(n) == [kind |-> "pct", n |-> n]
Inf == [kind |-> "inf", n |-> 0]
Junk == [kind |-> "junk", n |-> 0]

\* The text the external service answers with: a well-formed rating, an
\* eye-contact line whose value does not parse, no posture line, a focus
\* percentage and a line without a marker.
Analyses ==
    { << [has |-> {"ATTENTIVENESS_RATING"}, value |-> Num(7)],
         [has |-> {"EYE_CONTACT_SCORE"},    value |-> Junk],
         [has |-> {"FOCUS_DURATION"},       value |-> Pct(75)],
         [has |-> {},                       value |-> Junk] >> }

\* The lines the extraction is checked on: no marker, each marker, and a
\* line that names two markers; each with every kind of value.
Lines ==
    [has : {{}, {"ATTENTIVENESS_RATING"}, {"EYE_CONTACT_SCORE"},
            {"POSTURE_SCORE"}, {"FOCUS_DURATION"},
            {"ATTENTIVENESS_RATING", "FOCUS_DURATION"}},
     value : {Num(7), Pct(50), Inf, Junk}]

\* The sequences of at most n elements of S.
SeqUpTo(S, n) == UNION {[1..k -> S] : k \in 0..n}

\* The analysis texts the extraction is checked on: every text of at most
\* MaxLines lines, and a FOCUS_DURATION line for every percentage.
Texts ==
    SeqUpTo(Lines, MaxLines)
      \cup { << [has |-> {"FOCUS_DURATION"}, value |-> Pct(p)] >> : p \in 0..MaxPct }

\* datetime.now() when a row is written to the log `rows`: a reading later
\* than that of the entry before it, with a microsecond part.
Now(rows) == [sec |-> Len(rows) + 1, micro |-> 250000]

\* float(value): a number and "inf" parse, "75%" and other text raise
\* ValueError.
FloatOk(v) == v.kind \in {"num", "inf"}

\* float(value.replace('%', '')).
PercentOk(v) == v.kind \in {"num", "pct", "inf"}

\* float('inf') stands above every number of the texts.
Infinity == 1000000

\* The float that float(value) returns.
FloatValue(v) == IF v.kind = "inf" THEN Infinity ELSE v.n

\* int((percentage / 100) * 60): the float product truncated (for the
\* percentages 0..204 the float product truncates to this quotient).
FocusSeconds(pct) == (pct * 60) \div 100

\* The branch of the if/elif chain a line takes is the FOCUS_DURATION one.
FocusLine(line) ==
    /\ "FOCUS_DURATION" \in line.has
    /\ line.has \cap {"ATTENTIVENESS_RATING", "EYE_CONTACT_SCORE",
                      "POSTURE_SCORE"} = {}

\* int(inf) raises OverflowError, which `except (IndexError, ValueError)`
\* does not catch: it leaves process_images.
ExtractRaises(analysis) ==
    \E i \in DOMAIN analysis :
        FocusLine(analysis[i]) /\ analysis[i].value.kind = "inf"

\* process_images: the metrics before any line is parsed.
DefaultMetrics ==
    [rating |-> 5, eye_contact_score |-> 5, posture_score |-> 5,
     focus_duration |-> 30]

\* process_images, the body of the parsing loop for one line: the first
\* marker of the if/elif chain the line contains decides the field; a
\* ValueError leaves the metrics as they are.
ParseLine(m, line) ==
    IF "ATTENTIVENESS_RATING" \in line.has
    THEN IF FloatOk(line.value)
         THEN [m EXCEPT !.rating = FloatValue(line.value)] ELSE m
    ELSE IF "EYE_CONTACT_SCORE" \in line.has
    THEN IF FloatOk(line.value)
         THEN [m EXCEPT !.eye_contact_score = FloatValue(line.value)] ELSE m
    ELSE IF "POSTURE_SCORE" \in line.has
    THEN IF FloatOk(line.value)
         THEN [m EXCEPT !.posture_score = FloatValue(line.value)] ELSE m
    ELSE IF "FOCUS_DURATION" \in line.has
    THEN IF PercentOk(line.value)
         THEN [m EXCEPT !.focus_duration =
                            FocusSeconds(FloatValue(line.value))] ELSE m
    ELSE m

RECURSIVE ParseLines(_, _)
ParseLines(m, lines) ==
    IF lines = <<>> THEN m
    ELSE ParseLines(ParseLine(m, Head(lines)), Tail(lines))

\* process_images: the metrics extracted from an analysis text.
ExtractMetrics(analysis) == ParseLines(DefaultMetrics, analysis)

\* The row process_images writes: [timestamp, rating, analysis, eye contact,
\* posture, focus duration].  `batch` identifies the request whose analysis
\* the row carries.
Row(req, analysis, now) ==
    LET m == ExtractMetrics(analysis) IN
    [batch |-> req.id,
     timestamp |-> now,
     attentiveness_rating |-> m.rating,
     comment |-> analysis,
     eye_contact_score |-> m.eye_contact_score,
     posture_score |-> m.posture_score,
     focus_duration |-> m.focus_duration]

\* The last element of a history replaced.
SetLast(s, x) == [s EXCEPT ![Len(s)] = x]

RECURSIVE SumLen(_, _)
SumLen(f, S) ==
    IF S = {} THEN 0
    ELSE LET j == CHOOSE x \in S : TRUE IN Len(f[j]) + SumLen(f, S \ {j})

\* The number of analyze_student_images calls answered so far.
Submitted == SumLen(responses, Jobs)

\* ------------------------------------------------------------------- Init
Init ==
    /\ csv_exists = [j \in Jobs |-> FALSE]
    /\ log = [j \in Jobs |-> <<>>]
    /\ active_jobs = [j \in Jobs |-> FALSE]
    /\ job_queues = [j \in Jobs |-> <<>>]
    /\ job_queue_counts = [j \in Jobs |-> 0]
    /\ tasks = {}
    /\ run = NoRun
    /\ responses = [j \in Jobs |-> <<>>]
    /\ handed = [j \in Jobs |-> <<>>]
    /\ reply = NoReply

\* ------------------------------------------------------------ the handlers
\* Mutant of NeedsCreate: the csv file is written afresh on every call.
NeedsCreate_Always(j) == TRUE

\* analyze_student_images: `if not os.path.exists(csv_path)`.
NeedsCreate(j) == ~csv_exists[j]

\* Mutant of Schedule: the handler awaits process_request itself.
Schedule_Inline(j, req) ==
    /\ tasks' = tasks
    /\ run' = [job |-> j, pc |-> "psr_load", req |-> req,
               fromQueue |-> FALSE, images |-> <<>>]
    /\ handed' = [handed EXCEPT ![j] =
                     Append(@, [id |-> req.id, result |-> "running"])]

\* analyze_student_images: background_tasks.add_task(process_request,
\* request); the task starts after the response has been sent.
Schedule(j, req) ==
    /\ tasks' = tasks \cup {[job |-> j, req |-> req]}
    /\ UNCHANGED <<run, handed>>

\* POST /analyze_student_images, the whole handler.
AnalyzeStudentImages(j, shape) ==
    /\ reply' = NoReply
    /\ run = NoRun
    /\ Submitted < MaxSubmits
    /\ LET req == [id |-> Len(responses[j]) + 1,
                   image_urls |-> shape.image_urls,
                   image_paths |-> shape.image_paths]
       IN
       /\ csv_exists' = [csv_exists EXCEPT ![j] = TRUE]
       /\ log' = IF NeedsCreate(j) THEN [log EXCEPT ![j] = <<>>] ELSE log
       /\ IF ShouldQueue(j)
          THEN /\ job_queue_counts' =
                     [job_queue_counts EXCEPT ![j] = QueuedCount(@)]
               /\ job_queues' = [job_queues EXCEPT ![j] = Enqueue(@, req)]
               /\ responses' = [responses EXCEPT ![j] = Append(@,
                     [req |-> req, status |-> "queued",
                      queue_position |-> QueuePosition(job_queue_counts'[j]),
                      entries |-> Len(log[j])])]
               /\ UNCHANGED <<active_jobs, tasks, run, handed>>
          ELSE /\ active_jobs' = [active_jobs EXCEPT ![j] = TRUE]
               /\ job_queue_counts' = [job_queue_counts EXCEPT ![j] = 0]
               /\ Schedule(j, req)
               /\ responses' = [responses EXCEPT ![j] = Append(@,
                     [req |-> req, status |-> "processing",
                      queue_position |-> 0,
                      entries |-> Len(log[j])])]
               /\ UNCHANGED job_queues

\* -------------------------------------------------------------- the runner
\* The event loop starts a background task: process_request calls
\* process_single_request(request, job_id) with the admitting request.
RunnerStart(t) ==
    /\ reply' = NoReply
    /\ run = NoRun
    /\ t \in tasks
    /\ tasks' = tasks \ {t}
    /\ run' = [job |-> t.job, pc |-> "psr_load", req |-> t.req,
               fromQueue |-> FALSE, images |-> <<>>]
    /\ handed' = [handed EXCEPT ![t.job] =
                     Append(@, [id |-> t.req.id, result |-> "running"])]
    /\ UNCHANGED <<csv_exists, log, active_jobs, job_queues,
                   job_queue_counts, responses>>

\* Mutant of HasImages: process_images is called with whatever was loaded.
HasImages_Always(imgs) == TRUE

\* process_single_request: `if images:`.
HasImages(imgs) == imgs # <<>>

\* process_single_request: load the images; `if images:` decides whether
\* process_images is called.
PsrLoad ==
    /\ reply' = NoReply
    /\ run.pc = "psr_load"
    /\ LET imgs == LoadImages(run.req) IN
       /\ run' = [run EXCEPT !.images = imgs,
                             !.pc = IF HasImages(imgs) THEN "pi_body"
                                                      ELSE "psr_finally"]
       /\ handed' = IF HasImages(imgs) THEN handed
                    ELSE [handed EXCEPT ![run.job] =
                            SetLast(@, [id |-> run.req.id, result |-> "empty"])]
    /\ UNCHANGED <<csv_exists, log, active_jobs, job_queues,
                   job_queue_counts, tasks, responses>>

\* process_images, the try body, when the external service answers with
\* the text `analysis` or raises: the analysis call, the extraction and the
\* csv append.  Either it completes and one row is appended, or the call,
\* the extraction or the write raises and nothing is appended.
ProcessImages(analysis) ==
    /\ reply' = NoReply
    /\ run.pc = "pi_body"
    /\ \/ IF ExtractRaises(analysis)
          THEN /\ log' = log
               /\ handed' = [handed EXCEPT ![run.job] =
                     SetLast(@, [id |-> run.req.id, result |-> "overflow"])]
          ELSE /\ log' = [log EXCEPT ![run.job] =
                             Append(@, Row(run.req, analysis, Now(@)))]
               /\ handed' = [handed EXCEPT ![run.job] =
                     SetLast(@, [id |-> run.req.id, result |-> "ok"])]
       \/ /\ log' = log
          /\ handed' = [handed EXCEPT ![run.job] =
                SetLast(@, [id |-> run.req.id, result |-> "failed"])]
    /\ run' = [run EXCEPT !.pc = "pi_finally"]
    /\ UNCHANGED <<csv_exists, active_jobs, job_queues, job_queue_counts,
                   tasks, responses>>

PiBody == \E analysis \in Analyses : ProcessImages(analysis)

\* Mutant of Absorb: an exception of process_images leaves
\* process_single_request and ends process_request.
Absorb_Propagate(result) ==
    IF result \in {"failed", "overflow"} THEN "exit" ELSE "psr_finally"

\* process_single_request, `except Exception as e: print(...)`: where the
\* runner continues after process_images returned or raised.
Absorb(result) == "psr_finally"

\* Mutant of ClearFlag: the flag of every job is cleared.
ClearFlag_All(flags, j) == [k \in DOMAIN flags |-> FALSE]

\* process_images: active_jobs[job_id] = False.
ClearFlag(flags, j) == [flags EXCEPT ![j] = FALSE]

\* process_images, `finally: active_jobs[job_id] = False`; an exception then
\* reaches `except Exception` of process_single_request and is printed.
PiFinally ==
    /\ reply' = NoReply
    /\ run.pc = "pi_finally"
    /\ active_jobs' = ClearFlag(active_jobs, run.job)
    /\ run' = [run EXCEPT !.pc = Absorb(handed[run.job][Len(handed[run.job])].result)]
    /\ UNCHANGED <<csv_exists, log, job_queues, job_queue_counts, tasks,
                   responses, handed>>

\* process_single_request, `finally: if job_queues[job_id].empty(): ...`,
\* and the return to process_request.
PsrFinally ==
    /\ reply' = NoReply
    /\ run.pc = "psr_finally"
    /\ active_jobs' = IF job_queues[run.job] = <<>>
                      THEN [active_jobs EXCEPT ![run.job] = FALSE]
                      ELSE active_jobs
    /\ run' = [run EXCEPT !.pc = IF run.fromQueue THEN "decrement" ELSE "loop"]
    /\ UNCHANGED <<csv_exists, log, job_queues, job_queue_counts, tasks,
                   responses, handed>>

\* process_request, after a dequeued request has been processed.
Decrement ==
    /\ reply' = NoReply
    /\ run.pc = "decrement"
    /\ job_queue_counts' = [job_queue_counts EXCEPT ![run.job] = DrainedCount(@)]
    /\ run' = [run EXCEPT !.pc = "loop"]
    /\ UNCHANGED <<csv_exists, log, active_jobs, job_queues, tasks,
                   responses, handed>>

\* Mutant of LoopTest: the runner never drains the backlog.
LoopTest_Never(j) == FALSE

\* process_request, `while not job_queues[job_id].empty()`.
LoopTest(j) == job_queues[j] # <<>>

\* process_request: the loop test, and on a non-empty queue the get and the
\* call of process_single_request(next_request, job_id).
Loop ==
    /\ reply' = NoReply
    /\ run.pc = "loop"
    /\ IF LoopTest(run.job)
       THEN LET next_request == QueueFront(job_queues[run.job]) IN
            /\ job_queues' = [job_queues EXCEPT ![run.job] = QueueRest(@)]
            /\ run' = [run EXCEPT !.pc = "psr_load", !.req = next_request,
                                  !.fromQueue = TRUE, !.images = <<>>]
            /\ handed' = [handed EXCEPT ![run.job] =
                  Append(@, [id |-> next_request.id, result |-> "running"])]
       ELSE /\ run' = [run EXCEPT !.pc = "exit"]
            /\ UNCHANGED <<job_queues, handed>>
    /\ UNCHANGED <<csv_exists, log, active_jobs, job_queue_counts, tasks,
                   responses>>

\* process_request, `finally: active_jobs[job_id] = False`; the task ends.
RunnerExit ==
    /\ reply' = NoReply
    /\ run.pc = "exit"
    /\ active_jobs' = [active_jobs EXCEPT ![run.job] = FALSE]
    /\ run' = NoRun
    /\ UNCHANGED <<csv_exists, log, job_queues, job_queue_counts, tasks,
                   responses, handed>>

\* --------------------------------------------- create_job and the reads
\* Mutant of JobExists: create_job never finds the csv file.
JobExists_Never(j) == FALSE

\* create_job, analyze_job, job_status: os.path.exists(csv_path).
JobExists(j) == csv_exists[j]

Reply(op, j, code, body) == [op |-> op, job |-> j, code |-> code, body |-> body]

\* create_job. create_csv_file opens the file with mode 'w' and writes the
\* header line: the log has no entry afterwards.
CreateJob(j) ==
    /\ run = NoRun
    /\ IF JobExists(j)
          THEN /\ reply' = Reply("create_job", j, 400, NoBody)
               /\ UNCHANGED <<csv_exists, log>>
          ELSE /\ csv_exists' = [csv_exists EXCEPT ![j] = TRUE]
               /\ log' = [log EXCEPT ![j] = <<>>]
               /\ reply' = Reply("create_job", j, 200, [message |-> "created"])
    /\ UNCHANGED <<active_jobs, job_queues, job_queue_counts, tasks, run,
                   responses, handed>>

\* The column `field` of the data frame.
Column(rows, field) == [i \in 1..Len(rows) |-> rows[i][field]]

RECURSIVE Sum(_)
Sum(col) == IF col = <<>> THEN 0 ELSE Head(col) + Sum(Tail(col))

\* Series.mean(), kept exact as the pair of the sum and the count.
Mean(col) == [sum |-> Sum(col), count |-> Len(col)]

\* Mutant of Metrics: total_entries counts the header line as well.
Metrics_CountHeader(rows) ==
    [total_entries         |-> Len(rows) + 1,
     average_attentiveness |-> Mean(Column(rows, "attentiveness_rating")),
     average_eye_contact   |-> Mean(Column(rows, "eye_contact_score")),
     average_posture       |-> Mean(Column(rows, "posture_score")),
     total_focus_duration  |-> Sum(Column(rows, "focus_duration")),
     latest_comment        |-> rows[Len(rows)].comment]

\* analyze_job: the dictionary `metrics`.
Metrics(rows) ==
    [total_entries         |-> Len(rows),
     average_attentiveness |-> Mean(Column(rows, "attentiveness_rating")),
     average_eye_contact   |-> Mean(Column(rows, "eye_contact_score")),
     average_posture       |-> Mean(Column(rows, "posture_score")),
     total_focus_duration  |-> Sum(Column(rows, "focus_duration")),
     latest_comment        |-> rows[Len(rows)].comment]

\* analyze_job: the dictionary `raw_data`.
RawData(rows) ==
    [total_snapshots      |-> Len(rows),
     timestamps           |-> Column(rows, "timestamp"),
     attentiveness_scores |-> Column(rows, "attentiveness_rating"),
     eye_contact_scores   |-> Column(rows, "eye_contact_score"),
     posture_scores       |-> Column(rows, "posture_score"),
     focus_durations      |-> Column(rows, "focus_duration")]

NoData == [message |-> "No data recorded for this job"]

\* Mutant of AnalyzeJobBody: the report of the first entry, whatever was
\* appended since.
AnalyzeJobBody_Stale(rows) ==
    IF rows = <<>> THEN NoData
    ELSE [metrics  |-> Metrics(SubSeq(rows, 1, 1)),
          raw_data |-> RawData(SubSeq(rows, 1, 1))]

\* What analyze_job answers with when nothing raises. The narrative text
\* of the external service is not part of the model.
AnalyzeJobBody(rows) ==
    IF rows = <<>> THEN NoData
    ELSE [metrics |-> Metrics(rows), raw_data |-> RawData(rows)]

\* analyze_job. With entries in the log the handler calls the external
\* service for the narrative; any exception becomes HTTP 500.
AnalyzeJob(j) ==
    /\ run = NoRun
    /\ IF ~JobExists(j)
          THEN reply' = Reply("analyze_job", j, 404, NoBody)
          ELSE IF log[j] = <<>>
                 THEN reply' = Reply("analyze_job", j, 200, AnalyzeJobBody(log[j]))
                 ELSE \/ reply' = Reply("analyze_job", j, 200,
                                        AnalyzeJobBody(log[j]))
                      \/ reply' = Reply("analyze_job", j, 500, NoBody)
    /\ UNCHANGED <<csv_exists, log, active_jobs, job_queues, job_queue_counts,
                   tasks, run, responses, handed>>

\* Mutant of LatestRow: the first entry of the log.
LatestRow_First(rows) == rows[1]

\* job_status: df.iloc[-1].
LatestRow(rows) == rows[Len(rows)]

\* job_status: datetime.fromisoformat(...).strftime("%Y-%m-%d %H:%M:%S"),
\* which prints whole seconds.
FormatTime(ts) == [sec |-> ts.sec, micro |-> 0]

JobStatusBody(rows) ==
    IF rows = <<>> THEN NoData
    ELSE LET latest == LatestRow(rows)
         IN  [timestamp            |-> FormatTime(latest.timestamp),
              attentiveness_rating |-> latest.attentiveness_rating,
              eye_contact_score    |-> latest.eye_contact_score,
              posture_score        |-> latest.posture_score,
              focus_duration       |-> latest.focus_duration,
              comment              |-> latest.comment]

\* job_status.
JobStatus(j) ==
    /\ run = NoRun
    /\ IF ~JobExists(j)
          THEN reply' = Reply("job_status", j, 404, NoBody)
          ELSE reply' = Reply("job_status", j, 200, JobStatusBody(log[j]))
    /\ UNCHANGED <<csv_exists, log, active_jobs, job_queues, job_queue_counts,
                   tasks, run, responses, handed>>

RunnerStep ==
    \/ \E t \in tasks : RunnerStart(t)
    \/ PsrLoad
    \/ PiBody
    \/ PiFinally
    \/ PsrFinally
    \/ Decrement
    \/ Loop
    \/ RunnerExit

Next ==
    \/ \E j \in Jobs, shape \in RequestShapes : AnalyzeStudentImages(j, shape)
    \/ \E j \in Jobs : CreateJob(j)
    \/ \E j \in Jobs : AnalyzeJob(j)
    \/ \E j \in Jobs : JobStatus(j)
    \/ RunnerStep

Spec == Init /\ [][Next]_vars

\* The event loop eventually runs every scheduled background task and every
\* blocking call of the runner returns.
FairSpec == Spec /\ WF_vars(RunnerStep)

\* The extraction of process_images on every text of Texts: one batch is
\* submitted and executed, and the external service may answer with any of
\* the texts.
ExtractNext ==
    \/ \E j \in Jobs, shape \in RequestShapes :
          Submitted = 0 /\ AnalyzeStudentImages(j, shape)
    \/ \E t \in tasks : RunnerStart(t)
    \/ PsrLoad
    \/ run.pc = "pi_body" /\ \E analysis \in Texts : ProcessImages(analysis)
    \/ PiFinally
    \/ PsrFinally
    \/ Loop
    \/ RunnerExit

ExtractSpec == Init /\ [][ExtractNext]_vars

\* ======================================================================
\* Vocabulary of the claims
\* ======================================================================
Last(s) == s[Len(s)]

\* The runners of job j: background tasks scheduled and not started, plus the
\* runner the event loop is executing.
ScheduledFor(j) == {t \in tasks : t.job = j}

RunnersOf(j) == Cardinality(ScheduledFor(j)) + (IF run.job = j THEN 1 ELSE 0)

\* The runner is inside process_single_request.
InPipeline == run.pc \in {"psr_load", "pi_body", "pi_finally", "psr_finally"}

\* The batches of job j in the running state: admitted as 'processing' and
\* waiting for their background task, or inside process_single_request.
InFlight(j) ==
    {t.req.id : t \in ScheduledFor(j)}
        \cup (IF run.job = j /\ InPipeline THEN {run.req.id} ELSE {})

\* No runner of job j is scheduled or running.
Quiescent(j) == RunnersOf(j) = 0

\* A request with at least one image reference that loads.
HasLoadable(req) ==
    \/ \E i \in DOMAIN req.image_urls : req.image_urls[i] = TRUE
    \/ \E i \in DOMAIN req.image_paths : req.image_paths[i] = TRUE

AdmittedIds(j) == [i \in 1..Len(responses[j]) |-> responses[j][i].req.id]
HandedIds(j) == [i \in 1..Len(handed[j]) |-> handed[j][i].id]
QueueIds(j) == [i \in 1..Len(job_queues[j]) |-> job_queues[j][i].id]
LogIds(j) == [i \in 1..Len(log[j]) |-> log[j][i].batch]
ScheduledIds(j) ==
    IF ScheduledFor(j) = {} THEN <<>>
    ELSE <<(CHOOSE t \in ScheduledFor(j) : TRUE).req.id>>

\* Batch id of job j was handed to process_single_request with this result.
HandedWith(j, id, result) ==
    \E k \in DOMAIN handed[j] :
        handed[j][k].id = id /\ handed[j][k].result = result

\* Batch id of job j has been executed to completion.
Completed(j, id) ==
    \E k \in DOMAIN handed[j] :
        handed[j][k].id = id /\ handed[j][k].result # "running"

\* This step is a call of analyze_student_images for job j.
SubmitStep(j) == Len(responses'[j]) = Len(responses[j]) + 1

\* ======================================================================
\* C1.  For every job, at most one batch is in the running state and at
\* most one runner (scheduled or executing) exists, in every reachable
\* state, whatever submits were interleaved with the runners.
\* ======================================================================
C1_AtMostOneRunner ==
    \A j \in Jobs : RunnersOf(j) <= 1 /\ Cardinality(InFlight(j)) <= 1

\* A runner executes the pipeline of a batch it dequeued while a later submit
\* of the same job waits in the backlog.
C1_Witness ==
    /\ run.pc = "pi_body"
    /\ run.fromQueue
    /\ job_queues[run.job] # <<>>

\* ======================================================================
\* C2.  Original statement: once a job is quiescent its log holds exactly
\* the batches that yielded at least one loadable image, one row each, in
\* admission order.
\* ======================================================================
C2_Original ==
    \A j \in Jobs :
        Quiescent(j) =>
            LogIds(j) =
                LET Loadable(r) == HasLoadable(r.req)
                    kept == SelectSeq(responses[j], Loadable)
                IN  [i \in 1..Len(kept) |-> kept[i].req.id]

\* C2 as amended: once a job is quiescent its log holds exactly the batches
\* that yielded at least one loadable image and whose analysis and csv write
\* completed without raising, one row each, in admission order.
C2_Amended ==
    \A j \in Jobs :
        Quiescent(j) =>
            LogIds(j) =
                LET Kept(r) == /\ HasLoadable(r.req)
                               /\ HandedWith(j, r.req.id, "ok")
                    kept == SelectSeq(responses[j], Kept)
                IN  [i \in 1..Len(kept) |-> kept[i].req.id]

\* A quiescent job with three admitted batches of which two left a row.
C2_Witness ==
    \E j \in Jobs :
        /\ Quiescent(j)
        /\ Len(responses[j]) = 3
        /\ LogIds(j) = <<1, 3>>

\* ======================================================================
\* C3.  No admitted batch is skipped or processed twice: in every state
\* the admitted batches of a job are, in admission order, those handed to
\* process_single_request (once each), then the one waiting for its
\* background task, then the backlog; and the rows of the log are exactly
\* the batches whose processing succeeded, one row each.
\* ======================================================================
C3_ExactlyOnce ==
    \A j \in Jobs :
        /\ AdmittedIds(j) = HandedIds(j) \o ScheduledIds(j) \o QueueIds(j)
        /\ \A id \in 1..Len(responses[j]) :
              Cardinality({i \in DOMAIN log[j] : log[j][i].batch = id})
                  = IF HandedWith(j, id, "ok") THEN 1 ELSE 0

\* All three batches of a job have been handed over, two of them from the
\* backlog, and the job is quiescent again.
C3_Witness ==
    \E j \in Jobs :
        /\ Quiescent(j)
        /\ HandedIds(j) = <<1, 2, 3>>
        /\ responses[j][2].status = "queued"
        /\ responses[j][3].status = "queued"

\* ======================================================================
\* C4.  Liveness: under fair scheduling of the background tasks, every
\* admitted batch ('processing' or 'queued') is eventually executed to
\* completion (a row appended, or the batch skipped or failed).
\* ======================================================================
C4_EventuallyCompleted ==
    \A j \in Jobs : \A id \in 1..MaxSubmits :
        (Len(responses[j]) >= id) ~> Completed(j, id)

\* A batch that was answered 'queued' has been executed to completion.
C4_Witness ==
    \E j \in Jobs : \E i \in DOMAIN responses[j] :
        /\ responses[j][i].status = "queued"
        /\ Completed(j, responses[j][i].req.id)

\* ======================================================================
\* C5.  The queue_position returned with 'queued' equals the length of
\* the job's backlog immediately after the batch is enqueued.
\* ======================================================================
C5_PositionIsBacklogLength ==
    [][\A j \in Jobs :
          (SubmitStep(j) /\ Last(responses'[j]).status = "queued") =>
              Last(responses'[j]).queue_position = Len(job_queues'[j])]_vars

\* The third submit of a job was queued behind another queued batch.
C5_Witness ==
    \E j \in Jobs :
        /\ Len(responses[j]) = 3
        /\ responses[j][3].status = "queued"
        /\ responses[j][3].queue_position = 2
        /\ Len(job_queues[j]) = 2

\* ======================================================================
\* C6.  Within one busy period of a job the queue_position values
\* returned to successive 'queued' callers strictly increase.
\* ======================================================================
SameBusyPeriod(j, i, k) ==
    \A m \in i..k : responses[j][m].status = "queued"

C6_PositionsIncrease ==
    \A j \in Jobs : \A i, k \in DOMAIN responses[j] :
        (i < k /\ SameBusyPeriod(j, i, k)) =>
            responses[j][i].queue_position < responses[j][k].queue_position

\* Two callers were queued in one busy period, which has ended.
C6_Witness ==
    \E j \in Jobs :
        /\ Quiescent(j)
        /\ Len(responses[j]) = 3
        /\ SameBusyPeriod(j, 2, 3)
        /\ responses[j][2].queue_position = 1
        /\ responses[j][3].queue_position = 2

\* ======================================================================
\* C7.  Admission decision: analyze_student_images answers 'processing'
\* and schedules a runner if and only if no batch of the job is in the
\* running state and the backlog is empty; otherwise it appends the batch
\* to the backlog, answers 'queued' and schedules nothing.
\* ======================================================================
C7_AdmissionDecision ==
    [][\A j \in Jobs :
          SubmitStep(j) =>
              LET r == Last(responses'[j]) IN
              /\ r.status = "processing"
                    <=> (InFlight(j) = {} /\ job_queues[j] = <<>>)
              /\ r.status = "processing" =>
                    /\ tasks' = tasks \cup {[job |-> j, req |-> r.req]}
                    /\ job_queues'[j] = job_queues[j]
              /\ r.status # "processing" =>
                    /\ r.status = "queued"
                    /\ job_queues'[j] = Append(job_queues[j], r.req)
                    /\ tasks' = tasks]_vars

\* A job that was busy and became idle again admits a batch as 'processing'.
C7_Witness ==
    \E j \in Jobs :
        /\ Len(responses[j]) = 3
        /\ responses[j][2].status = "queued"
        /\ responses[j][3].status = "processing"

\* ======================================================================
\* C8.  On an idle job a submit of batch A is answered 'processing'; the
\* first submit B that arrives after A's admission and before A's
\* pipeline completes is answered 'queued' with queue_position 1; and when
\* both have completed with loadable images and a successful analysis the
\* job's log has exactly 2 rows.
\* ======================================================================
Idle(j) == RunnersOf(j) = 0 /\ job_queues[j] = <<>> /\ ~active_jobs[j]

BothSucceeded(j) ==
    /\ Quiescent(j)
    /\ Len(responses[j]) = 2
    /\ \A i \in 1..2 :
          /\ HasLoadable(responses[j][i].req)
          /\ HandedWith(j, responses[j][i].req.id, "ok")

C8_Scenario ==
    [][\A j \in Jobs :
          /\ SubmitStep(j) =>
                LET r == Last(responses'[j]) IN
                /\ Idle(j) => r.status = "processing"
                /\ (InFlight(j) # {} /\ job_queues[j] = <<>>) =>
                      (r.status = "queued" /\ r.queue_position = 1)
          /\ BothSucceeded(j)' => Len(log'[j]) = 2]_vars

\* A was answered 'processing', B 'queued' at position 1, both succeeded.
C8_Witness ==
    \E j \in Jobs :
        /\ BothSucceeded(j)
        /\ responses[j][1].status = "processing"
        /\ responses[j][2].status = "queued"
        /\ responses[j][2].queue_position = 1
        /\ Len(log[j]) = 2

\* ======================================================================
\* C9.  The active flag of a job is true if and only if a batch of the
\* job is executing the pipeline: it is true while the runner loads the
\* images of a batch or runs process_images' body on it (the second and
\* later batches of a drain cycle included), and it is true only while a
\* runner of the job exists.
\* ======================================================================
C9_ActiveIffExecuting ==
    \A j \in Jobs :
        /\ (run.job = j /\ run.pc \in {"psr_load", "pi_body"}) => active_jobs[j]
        /\ active_jobs[j] => RunnersOf(j) > 0

\* ======================================================================
\* C10.  The pending counter of a job equals the number of batches
\* admitted and not yet started, i.e. the length of the job's backlog.
\* ======================================================================
C10_CountIsBacklogLength ==
    \A j \in Jobs : job_queue_counts[j] = Len(job_queues[j])

\* ======================================================================
\* C11.  A failure inside one batch is absorbed by the runner: no entry is
\* appended for that batch, the loop is not aborted and every batch in the
\* backlog at that moment is subsequently dequeued and executed.
\* ======================================================================
\* Some image of the batch fails to load.
HasUnloadable(req) ==
    \/ \E i \in DOMAIN req.image_urls : req.image_urls[i] # TRUE
    \/ \E i \in DOMAIN req.image_paths : req.image_paths[i] # TRUE

\* Some marker line of the stored analysis text has a value that float()
\* rejects.
HasUnparsable(row) ==
    \E i \in DOMAIN row.comment :
        row.comment[i].has # {} /\ row.comment[i].value.kind = "junk"

\* Batch id is in the backlog of job j.
InBacklog(j, id) == \E k \in DOMAIN job_queues[j] : job_queues[j][k].id = id

\* The analysis call, the extraction or the csv write of the batch of job j
\* that is being executed has just raised.
FailedNow(j) ==
    /\ run.job = j
    /\ run.pc = "pi_finally"
    /\ handed[j][Len(handed[j])].result \in {"failed", "overflow"}

\* C11 as stated, its first part: a batch with a failure of any of the three
\* kinds has no entry in the log.
C11_Original ==
    \A j \in Jobs :
        /\ \A i \in DOMAIN responses[j] :
              HasUnloadable(responses[j][i].req)
                  => \A k \in DOMAIN log[j] : log[j][k].batch # i
        /\ \A k \in DOMAIN log[j] : ~HasUnparsable(log[j][k])

\* C11 amended: an exception that leaves process_images (the analysis call,
\* the csv write or int() of an infinite focus value raised) leaves no entry
\* for that batch, and every batch
\* in the backlog at that moment is executed afterwards.  (An image that
\* fails to load is dropped from the batch and a metric value that does not
\* parse keeps its default: neither prevents the entry.)
C11_Amended ==
    /\ [](\A j \in Jobs : \A id \in 1..MaxSubmits :
            (HandedWith(j, id, "failed") \/ HandedWith(j, id, "overflow"))
                => \A k \in DOMAIN log[j] : log[j][k].batch # id)
    /\ \A j \in Jobs : \A id \in 1..MaxSubmits :
          (FailedNow(j) /\ InBacklog(j, id)) ~> Completed(j, id)

\* A batch failed while another was in the backlog, and the runner went on
\* to append the row of that other batch.
C11_Witness ==
    \E j \in Jobs : \E k \in DOMAIN handed[j] :
        /\ k > 1
        /\ handed[j][k - 1].result = "failed"
        /\ handed[j][k].result = "ok"
        /\ responses[j][handed[j][k].id].status = "queued"
        /\ \A n \in DOMAIN log[j] : log[j][n].batch # handed[j][k - 1].id
        /\ \E n \in DOMAIN log[j] : log[j][n].batch = handed[j][k].id

\* ======================================================================
\* C12.  A batch in which no image can be loaded is still admitted, but its
\* execution appends nothing to the job's log, and the runner proceeds to
\* the next queued batch.
\* ======================================================================
\* The runner is executing a batch of which no image can be loaded.
ExecutingUnloadable == run # NoRun /\ InPipeline /\ ~HasLoadable(run.req)

C12_UnloadableBatch ==
    /\ [](\A j \in Jobs : \A i \in DOMAIN responses[j] :
            ~HasLoadable(responses[j][i].req) =>
               /\ responses[j][i].status \in {"processing", "queued"}
               /\ \A k \in DOMAIN log[j] : log[j][k].batch # i
               /\ ~HandedWith(j, i, "ok") /\ ~HandedWith(j, i, "failed")
               /\ Quiescent(j) =>
                     \A n \in DOMAIN responses[j] : Completed(j, n))
    /\ [][ExecutingUnloadable => log' = log]_vars

\* A batch without a loadable image was executed and skipped, the runner
\* went on to the queued batch behind it, and only that one is in the log.
C12_Witness ==
    \E j \in Jobs : \E k \in DOMAIN handed[j] :
        /\ k > 1
        /\ handed[j][k - 1].result = "empty"
        /\ ~HasLoadable(responses[j][handed[j][k - 1].id].req)
        /\ handed[j][k].result = "ok"
        /\ responses[j][handed[j][k].id].status = "queued"
        /\ \A n \in DOMAIN log[j] : log[j][n].batch # handed[j][k - 1].id
        /\ \E n \in DOMAIN log[j] : log[j][n].batch = handed[j][k].id

\* ======================================================================
\* C13.  Jobs are independent: a submit, runner step, failure or read on
\* one job leaves the active flag, backlog, pending counter and log of
\* every other job unchanged, and a job whose batches fail does not keep
\* another job's batches from being admitted and processed.
\* ======================================================================
\* The state the server keeps for job j.
JobState(j) ==
    <<csv_exists[j], log[j], active_jobs[j], job_queues[j], job_queue_counts[j]>>

\* This step is a call, a runner step or a failure on job j.
StepOn(j) ==
    \/ SubmitStep(j)
    \/ run.job = j
    \/ run'.job = j
    \/ reply'.job = j

\* Some batch of job j raised in process_images.
HasFailed(j) == \E k \in DOMAIN handed[j] : handed[j][k].result = "failed"

C13_JobsIndependent ==
    /\ [][\A y \in Jobs : ~StepOn(y) => JobState(y)' = JobState(y)]_vars
    /\ [](\A x \in Jobs : \A y \in Jobs \ {x} :
            (HasFailed(x) /\ Quiescent(y)) =>
                \A n \in DOMAIN responses[y] :
                    /\ Completed(y, n)
                    /\ (HasLoadable(responses[y][n].req)
                           /\ ~HandedWith(y, n, "failed"))
                          => \E k \in DOMAIN log[y] : log[y][k].batch = n)

\* A batch of one job failed and its runner ended; after that the runner of
\* another job, whose batch was waiting meanwhile, appended its row.
C13_Witness ==
    \E x \in Jobs : \E y \in Jobs \ {x} :
        /\ HasFailed(x)
        /\ Quiescent(x)
        /\ run.job = y
        /\ run.pc = "pi_finally"
        /\ handed[y][Len(handed[y])].result = "ok"
        /\ \E k \in DOMAIN log[y] : log[y][k].batch = run.req.id

\* ======================================================================
\* C14.  create_job on a job whose storage exists answers HTTP 400 and
\* leaves the job's log and queue state unchanged; on an unknown job it
\* succeeds and creates a log with no entry.
\* ======================================================================
\* This step is a call of the handler op for job j.
Call(op, j) == reply'.op = op /\ reply'.job = j

\* The queue state of job j.
QueueState(j) == <<active_jobs[j], job_queues[j], job_queue_counts[j]>>

C14_CreateJob ==
    [][\A j \in Jobs : Call("create_job", j) =>
          /\ \A y \in Jobs : QueueState(y)' = QueueState(y)
          /\ tasks' = tasks /\ run' = run
          /\ IF csv_exists[j]
                THEN reply'.code = 400 /\ log' = log /\ csv_exists' = csv_exists
                ELSE /\ reply'.code = 200
                     /\ csv_exists' = [csv_exists EXCEPT ![j] = TRUE]
                     /\ log' = [log EXCEPT ![j] = <<>>]]_vars

\* create_job was refused for a job that has received a batch and has an
\* entry in its log.
C14_Witness ==
    /\ reply.op = "create_job"
    /\ reply.code = 400
    /\ responses[reply.job] # <<>>
    /\ log[reply.job] # <<>>

\* ======================================================================
\* C15.  Each job's log is append-only: at every later state it has the
\* earlier log as a prefix.  analyze_student_images creates the storage
\* only when the job is unknown; on a known job it is answered as usual
\* and leaves the entries as they are.
\* ======================================================================
IsPrefix(a, b) == Len(a) <= Len(b) /\ \A i \in DOMAIN a : a[i] = b[i]

C15_AppendOnly ==
    [][\A j \in Jobs :
          /\ IsPrefix(log[j], log'[j])
          /\ csv_exists[j] => csv_exists'[j]
          /\ SubmitStep(j) =>
                /\ csv_exists'[j]
                /\ log'[j] = log[j]
                /\ responses'[j][Len(responses'[j])].status
                       \in {"processing", "queued"}]_vars

\* A job that already had an entry received another batch; the earlier
\* entry is still there and the entry of the new batch follows it.
C15_Witness ==
    \E j \in Jobs : \E n \in DOMAIN responses[j] :
        /\ n > 1
        /\ responses[j][n].status = "processing"
        /\ \E k \in DOMAIN log[j] :
              /\ k > 1
              /\ log[j][k].batch = n
              /\ log[j][k - 1].batch < n

\* ======================================================================
\* C16.  analyze_job is read-only and idempotent: it changes no job's log
\* or queue state, and two successive calls with no new batch admitted
\* between them return identical metrics and raw_data.
\* ======================================================================
\* C16 as stated.  analyze_job can be served right after a batch of job j
\* was admitted and at every later state in which no runner is executing;
\* as long as no further batch is admitted, the claim has the report of
\* these calls, hence the number of entries it is computed from, the same.
C16_Original ==
    \A j \in Jobs :
        (run = NoRun /\ responses[j] # <<>>)
            => Len(log[j]) = responses[j][Len(responses[j])].entries

\* C16 amended: analyze_job changes nothing, and what a successful call
\* returns is determined by the job's log as it is at the call: two
\* successful calls between which no entry is appended return the same
\* metrics and raw_data.  (A batch admitted before the first call and
\* executed between the calls appends an entry and changes them.)
C16_Amended ==
    /\ [][\A j \in Jobs : Call("analyze_job", j) =>
            /\ server' = server
            /\ responses' = responses /\ handed' = handed]_vars
    /\ []((reply.op = "analyze_job" /\ reply.code = 200
            /\ log[reply.job] # <<>>) =>
           LET rows == log[reply.job]
               n == Len(rows)
               m == reply.body.metrics
               r == reply.body.raw_data
           IN  /\ m.total_entries = n
               /\ m.average_attentiveness.count = n
               /\ m.average_attentiveness.sum =
                      Sum([i \in 1..n |-> rows[i].attentiveness_rating])
               /\ m.total_focus_duration =
                      Sum([i \in 1..n |-> rows[i].focus_duration])
               /\ m.latest_comment = rows[n].comment
               /\ r.total_snapshots = n
               /\ r.timestamps = [i \in 1..n |-> rows[i].timestamp]
               /\ r.attentiveness_scores =
                      [i \in 1..n |-> rows[i].attentiveness_rating]
               /\ r.eye_contact_scores =
                      [i \in 1..n |-> rows[i].eye_contact_score]
               /\ r.posture_scores = [i \in 1..n |-> rows[i].posture_score]
               /\ r.focus_durations = [i \in 1..n |-> rows[i].focus_duration])

\* analyze_job has just reported two entries of a job for which a batch is
\* waiting for its runner: the entry of that batch is yet to come.
C16_Witness ==
    /\ reply.op = "analyze_job"
    /\ reply.code = 200
    /\ Len(log[reply.job]) = 2
    /\ reply.body.metrics.total_entries = 2
    /\ ScheduledFor(reply.job) # {}

\* ======================================================================
\* C17.  analyze_job answers 404 for a job that was never created, a 'no
\* data' message for a job without entries, and for a job with n >= 1
\* entries metrics whose total_entries is n.
\* ======================================================================
\* analyze_job has just answered for job j.
Analyzed(j) == reply.op = "analyze_job" /\ reply.job = j

\* C17 as stated.
C17_Original ==
    \A j \in Jobs : Analyzed(j) =>
        IF ~csv_exists[j] THEN reply.code = 404
        ELSE IF Len(log[j]) = 0
               THEN reply.code = 200 /\ reply.body = NoData
               ELSE /\ reply.code = 200
                    /\ reply.body.metrics.total_entries = Len(log[j])

\* C17 amended: with n >= 1 entries the call answers HTTP 500 when the
\* request for the narrative raises, and otherwise metrics whose
\* total_entries is n.
C17_Amended ==
    \A j \in Jobs : Analyzed(j) =>
        IF ~csv_exists[j] THEN reply.code = 404
        ELSE IF Len(log[j]) = 0
               THEN reply.code = 200 /\ reply.body = NoData
               ELSE \/ reply.code = 500
                    \/ /\ reply.code = 200
                       /\ reply.body.metrics.total_entries = Len(log[j])

\* analyze_job reported the one entry of a job that has executed two
\* batches, one of them without a loadable image.
C17_Witness ==
    \E j \in Jobs :
        /\ Analyzed(j)
        /\ reply.code = 200
        /\ Len(log[j]) = 1
        /\ reply.body.metrics.total_entries = 1
        /\ Len(handed[j]) = 2
        /\ HandedWith(j, 1, "empty") \/ HandedWith(j, 2, "empty")

\* ======================================================================
\* C18.  job_status answers 404 for an unknown job; for a job with at
\* least one entry it returns the timestamp and the five metric fields of
\* the latest entry, unmodified; it never changes the log or the queue
\* state.
\* ======================================================================
\* job_status has just answered for job j.
StatusGiven(j) == reply.op = "job_status" /\ reply.job = j

\* The five metric fields of the answer are those of the entry.
SameMetrics(body, entry) ==
    /\ body.attentiveness_rating = entry.attentiveness_rating
    /\ body.eye_contact_score = entry.eye_contact_score
    /\ body.posture_score = entry.posture_score
    /\ body.focus_duration = entry.focus_duration
    /\ body.comment = entry.comment

\* C18 as stated, for the answer: the timestamp is the stored one.
C18_Original ==
    \A j \in Jobs : StatusGiven(j) =>
        IF ~csv_exists[j] THEN reply.code = 404
        ELSE Len(log[j]) >= 1 =>
               /\ reply.code = 200
               /\ SameMetrics(reply.body, log[j][Len(log[j])])
               /\ reply.body.timestamp = log[j][Len(log[j])].timestamp

\* C18 amended: the five metric fields are those of the latest entry, and
\* the timestamp is that of the latest entry printed to whole seconds: its
\* microseconds are dropped.
C18_Amended ==
    /\ [](\A j \in Jobs : StatusGiven(j) =>
            IF ~csv_exists[j] THEN reply.code = 404
            ELSE Len(log[j]) >= 1 =>
                   /\ reply.code = 200
                   /\ SameMetrics(reply.body, log[j][Len(log[j])])
                   /\ reply.body.timestamp.sec = log[j][Len(log[j])].timestamp.sec
                   /\ reply.body.timestamp.micro = 0)
    /\ [][\A j \in Jobs : Call("job_status", j) =>
            /\ server' = server
            /\ responses' = responses /\ handed' = handed]_vars

\* job_status answered for a job with two entries: the answer carries the
\* time of the second one, without the microseconds that are stored.
C18_Witness ==
    \E j \in Jobs :
        /\ StatusGiven(j)
        /\ reply.code = 200
        /\ Len(log[j]) = 2
        /\ log[j][2].timestamp.micro # 0
        /\ log[j][2].timestamp.sec # log[j][1].timestamp.sec
        /\ reply.body.timestamp.sec = log[j][2].timestamp.sec

\* ======================================================================
\* C19.  Once a runner has been started for a job the active flag stays
\* true through the whole drain cycle: no reachable state has the flag
\* false while the backlog is non-empty.
\* ======================================================================
C19_ActiveWhileBacklog ==
    \A j \in Jobs : job_queues[j] # <<>> => active_jobs[j]

\* ======================================================================
\* C20.  Submission never blocks on processing: analyze_student_images
\* answers before the pipeline of the submitted batch starts; on the
\* 'processing' path the handler only sets the active flag, resets the
\* pending counter to 0 and schedules the runner as a background task.
\* ======================================================================
C20_SubmitDoesNotBlock ==
    [][\A j \in Jobs : SubmitStep(j) =>
          LET r == responses'[j][Len(responses'[j])] IN
          /\ r.status \in {"processing", "queued"}
          /\ run' = NoRun
          /\ handed' = handed
          /\ log'[j] = log[j]
          /\ r.status = "processing" =>
                /\ active_jobs' = [active_jobs EXCEPT ![j] = TRUE]
                /\ job_queue_counts' = [job_queue_counts EXCEPT ![j] = 0]
                /\ job_queues' = job_queues
                /\ [job |-> j, req |-> r.req] \notin tasks
                /\ tasks' = tasks \cup {[job |-> j, req |-> r.req]}]_vars

\* The second batch of a job has been answered 'processing': its runner is
\* scheduled and nothing of the batch has been executed.
C20_Witness ==
    \E j \in Jobs :
        /\ Len(responses[j]) = 2
        /\ responses[j][2].status = "processing"
        /\ [job |-> j, req |-> responses[j][2].req] \in tasks
        /\ run = NoRun
        /\ Len(handed[j]) = 1
        /\ active_jobs[j]
        /\ job_queue_counts[j] = 0

\* ======================================================================
\* C21.  Metric extraction: for every analysis text, each of the four
\* fields whose marker line is absent or whose value is unparsable takes
\* its default (5, 5, 5, 30), and a parse failure on one line prevents
\* neither the extraction of the other lines nor the entry.
\* ======================================================================
\* The marker a line is read for: the first of the chain that it contains.
MarkerOf(line) ==
    IF "ATTENTIVENESS_RATING" \in line.has THEN "ATTENTIVENESS_RATING"
    ELSE IF "EYE_CONTACT_SCORE" \in line.has THEN "EYE_CONTACT_SCORE"
    ELSE IF "POSTURE_SCORE" \in line.has THEN "POSTURE_SCORE"
    ELSE IF "FOCUS_DURATION" \in line.has THEN "FOCUS_DURATION"
    ELSE "none"

\* The value of a line is a number, for FOCUS_DURATION possibly followed
\* by a percent sign.
Parsable(line) ==
    \/ line.value.kind = "num"
    \/ line.value.kind = "pct" /\ MarkerOf(line) = "FOCUS_DURATION"

\* No value of the text is a spelling of infinity.
Finite(text) == \A i \in DOMAIN text : text[i].value.kind # "inf"

\* No line of the text gives the field of this marker a value.
NoValueFor(text, marker) ==
    \A i \in DOMAIN text : MarkerOf(text[i]) = marker => ~Parsable(text[i])

\* The text has a line for this marker whose value parses.
HasValueFor(text, marker) ==
    \E i \in DOMAIN text : MarkerOf(text[i]) = marker /\ Parsable(text[i])

C21_DefaultsAndEntry ==
    \A j \in Jobs :
        /\ \A k \in DOMAIN handed[j] : handed[j][k].result # "overflow"
        /\ \A k \in DOMAIN log[j] :
              LET row == log[j][k]
                  text == row.comment
              IN  Finite(text) =>
                  /\ NoValueFor(text, "ATTENTIVENESS_RATING")
                        => row.attentiveness_rating = 5
                  /\ NoValueFor(text, "EYE_CONTACT_SCORE")
                        => row.eye_contact_score = 5
                  /\ NoValueFor(text, "POSTURE_SCORE")
                        => row.posture_score = 5
                  /\ NoValueFor(text, "FOCUS_DURATION")
                        => row.focus_duration = 30
                  /\ HasValueFor(text, "ATTENTIVENESS_RATING")
                        => row.attentiveness_rating = 7
                  /\ HasValueFor(text, "EYE_CONTACT_SCORE")
                        => row.eye_contact_score = 7
                  /\ HasValueFor(text, "POSTURE_SCORE")
                        => row.posture_score = 7

\* ======================================================================
\* C22.  For every focus percentage pct of 0..100 parsed from a
\* FOCUS_DURATION line, the focus_duration stored in the entry is
\* round(pct/100 * 60) seconds.
\* ======================================================================
\* round(pct/100 * 60) for an integer percentage: 60 * pct / 100 is never
\* half-way between two integers.
RoundedSeconds(pct) == (pct * 60 + 50) \div 100

C22_FocusRounded ==
    \A j \in Jobs : \A k \in DOMAIN log[j] :
        LET text == log[j][k].comment IN
        (/\ Len(text) = 1
         /\ text[1].has = {"FOCUS_DURATION"}
         /\ text[1].value.kind = "pct"
         /\ text[1].value.n \in 0..100)
            => log[j][k].focus_duration = RoundedSeconds(text[1].value.n)

\* ======================================================================
\* C23.  No stranding: in every reachable state, if a job's active flag is
\* true or its backlog is non-empty, a runner for that job is scheduled or
\* is running and has not yet made its final empty-backlog test.
\* ======================================================================
\* A runner of job j is scheduled, or is running before the test of the
\* while loop that finds the backlog empty.
RunnerAhead(j) ==
    \/ ScheduledFor(j) # {}
    \/ run.job = j /\ run.pc # "exit"

C23_NoStranding ==
    \A j \in Jobs :
        (active_jobs[j] \/ job_queues[j] # <<>>) => RunnerAhead(j)

\* The runner has finished a batch, the flag is already false, and two
\* batches are in the backlog for it to dequeue.
C23_Witness ==
    \E j \in Jobs :
        /\ Len(job_queues[j]) = 2
        /\ ~active_jobs[j]
        /\ ScheduledFor(j) = {}
        /\ run.job = j
        /\ run.pc = "loop"

\* ======================================================================
\* C24.  Quiescence: whenever no runner of a job is scheduled or running,
\* the job's active flag is false, its backlog is empty and its pending
\* counter is 0; and the pending counter is never negative.
\* ======================================================================
C24_Quiescence ==
    \A j \in Jobs :
        /\ job_queue_counts[j] >= 0
        /\ Quiescent(j) =>
              /\ ~active_jobs[j]
              /\ job_queues[j] = <<>>
              /\ job_queue_counts[j] = 0

\* A job is quiescent after its runner has drained two queued batches.
C24_Witness ==
    \E j \in Jobs :
        /\ Quiescent(j)
        /\ Len(responses[j]) = 3
        /\ responses[j][3].queue_position = 2
        /\ \A n \in 1..3 : Completed(j, n)
        /\ job_queue_counts[j] = 0

\* ======================================================================
\* C25.  Frame of the 'queued' path: a call of analyze_student_images that
\* answers 'queued' appends the batch at the tail of the job's backlog and
\* adds 1 to its pending counter; it leaves the active flag, the batch
\* being executed, the batches already in the backlog and the log
\* unchanged, and starts no runner.
\* ======================================================================
C25_QueuedFrame ==
    [][\A j \in Jobs :
          (SubmitStep(j) /\ responses'[j][Len(responses'[j])].status = "queued")
          => LET r == responses'[j][Len(responses'[j])] IN
             /\ job_queues' = [job_queues EXCEPT ![j] = job_queues[j] \o <<r.req>>]
             /\ job_queue_counts' =
                   [job_queue_counts EXCEPT ![j] = job_queue_counts[j] + 1]
             /\ active_jobs' = active_jobs
             /\ run' = run
             /\ tasks' = tasks
             /\ handed' = handed
             /\ log' = log
             /\ csv_exists' = csv_exists]_vars

\* The third batch of a job has been answered 'queued' behind the second,
\* while the runner of the first has not started.
C25_Witness ==
    \E j \in Jobs :
        /\ Len(responses[j]) = 3
        /\ responses[j][3].status = "queued"
        /\ Len(job_queues[j]) = 2
        /\ job_queues[j][1].id = 2
        /\ job_queues[j][2].id = 3
        /\ job_queue_counts[j] = 2
        /\ ScheduledFor(j) # {}
        /\ run = NoRun
====
